---------------------------- MODULE Spec2Model ----------------------------
(***************************************************************************)
(* A model of the HARE KRISHNA click game and its leaderboard:             *)
(*   - the click sequencer of the Home page (handleButtonClick);           *)
(*   - the score submission route POST /api/leaderboard/score, with the    *)
(*     validation of its body;                                             *)
(*   - the read routes GET /api/leaderboard/global, /country/:country and  *)
(*     /total, with the storage queries behind them;                       *)
(*   - updatePlayerScore of the two storage back ends, DatabaseStorage     *)
(*     (Postgres through drizzle) and MongoStorage.                        *)
(* Every await of the server code is a step of its own, so that requests   *)
(* interleave exactly at the back-end I/O boundaries.                      *)
(***************************************************************************)
EXTENDS Integers, Sequences, FiniteSets, TLC

VARIABLES
    gameState,  \* Home: {score, lastClicked, expecting, malaCount}
    clicks,     \* history: the buttons clicked so far (ClickSpec only)
    backend,    \* which storage implementation serves the routes
    store,      \* the leaderboard table / collection, in insertion order
    clock,      \* the wall clock read by new Date() and defaultNow()
    req,        \* per request slot: position and locals of the handler
    nsub,       \* number of submissions accepted so far
    hist,       \* history of the sequential runs (SeqSpec only)
    raw,        \* per request slot: the body of the last POST as it arrived
    qry,        \* the read request (GET /api/leaderboard/...) being served
    client,     \* the Leaderboard component of one browser
    auth,       \* users, email tokens and the auth requests being served
    twin        \* the run on the other back end that a replay is compared to

vars ==
    <<gameState, clicks, backend, store, clock, req, nsub, hist, raw, qry,
      client, auth, twin>>

clickVars == <<gameState, clicks>>
boardVars == <<backend, store, clock, req, nsub, hist>>
webVars == <<raw, qry>>
sideVars == <<auth, twin>>

-----------------------------------------------------------------------------
(* Bounds of the model *)

MaxClicks == 8
MaxPairs == 220
MaxSubs == 3
MaxTime == 1
MaxSubmitScore == 2
MaxTokens == 2
MaxAuthTime == 2

(* Program constants *)

MalaSize == 108
MaxNameLen == 50
CountryLen == 2
DefaultGlobalLimit == 100
DefaultCountryLimit == 50

\* The lifetime of an email token (24 hours), the unit of time of the
\* account routes.
TokenLifetime == 1

-----------------------------------------------------------------------------
(* Click sequencer *)

ButtonType == {"hare", "krishna"}
NoButton == "null"

InitialGameState ==
    [score |-> 0, lastClicked |-> NoButton, expecting |-> "hare", malaCount |-> 0]

Opposite(buttonType) == IF buttonType = "hare" THEN "krishna" ELSE "hare"

\* Mutant: a wrong click resets the sequencer instead of re-synchronising it.
NextGameState_ResetOnWrongClick(prev, buttonType) ==
    IF buttonType = prev.expecting
    THEN LET pair == buttonType = "krishna" /\ prev.lastClicked = "hare"
             newScore == IF pair THEN prev.score + 1 ELSE prev.score
         IN [score |-> newScore,
             malaCount |-> IF pair /\ newScore > 0 /\ newScore % MalaSize = 0
                           THEN prev.malaCount + 1 ELSE prev.malaCount,
             lastClicked |-> buttonType,
             expecting |-> Opposite(buttonType)]
    ELSE [prev EXCEPT !.lastClicked = NoButton, !.expecting = "hare"]

\* Mutant: the mala test reads the score before the increment.
NextGameState_MalaOnOldScore(prev, buttonType) ==
    LET pair == buttonType = prev.expecting /\ buttonType = "krishna"
                /\ prev.lastClicked = "hare"
    IN [score |-> IF pair THEN prev.score + 1 ELSE prev.score,
        malaCount |-> IF pair /\ prev.score > 0 /\ prev.score % MalaSize = 0
                      THEN prev.malaCount + 1 ELSE prev.malaCount,
        lastClicked |-> buttonType,
        expecting |-> Opposite(buttonType)]

\* Mutant: a wrong click forfeits the score.
NextGameState_WrongClickClearsScore(prev, buttonType) ==
    IF buttonType = prev.expecting
    THEN LET pair == buttonType = "krishna" /\ prev.lastClicked = "hare"
             newScore == IF pair THEN prev.score + 1 ELSE prev.score
         IN [score |-> newScore,
             malaCount |-> IF pair /\ newScore > 0 /\ newScore % MalaSize = 0
                           THEN prev.malaCount + 1 ELSE prev.malaCount,
             lastClicked |-> buttonType,
             expecting |-> Opposite(buttonType)]
    ELSE [score |-> 0, malaCount |-> 0, lastClicked |-> buttonType,
          expecting |-> Opposite(buttonType)]

\* Mutant: a wrong click is ignored (lastClicked and expecting are kept).
NextGameState_WrongClickIgnored(prev, buttonType) ==
    IF buttonType = prev.expecting
    THEN LET pair == buttonType = "krishna" /\ prev.lastClicked = "hare"
             newScore == IF pair THEN prev.score + 1 ELSE prev.score
         IN [score |-> newScore,
             malaCount |-> IF pair /\ newScore > 0 /\ newScore % MalaSize = 0
                           THEN prev.malaCount + 1 ELSE prev.malaCount,
             lastClicked |-> buttonType,
             expecting |-> Opposite(buttonType)]
    ELSE prev

\* Mutant: every correct click scores, not only a krishna after a hare.
NextGameState_ScoreOnAnyCorrect(prev, buttonType) ==
    IF buttonType = prev.expecting
    THEN LET newScore == prev.score + 1
         IN [score |-> newScore,
             malaCount |-> IF newScore > 0 /\ newScore % MalaSize = 0
                           THEN prev.malaCount + 1 ELSE prev.malaCount,
             lastClicked |-> buttonType,
             expecting |-> Opposite(buttonType)]
    ELSE [prev EXCEPT !.lastClicked = buttonType,
                      !.expecting = Opposite(buttonType)]

\* Mutant: a krishna click scores only when the hare before it was itself a
\* correct click (a repeated hare breaks the pair).
NextGameState_RepeatedHareBreaksPair(prev, buttonType) ==
    IF buttonType = prev.expecting
    THEN LET pair == buttonType = "krishna" /\ prev.lastClicked = "hare"
             newScore == IF pair THEN prev.score + 1 ELSE prev.score
         IN [score |-> newScore,
             malaCount |-> IF pair /\ newScore > 0 /\ newScore % MalaSize = 0
                           THEN prev.malaCount + 1 ELSE prev.malaCount,
             lastClicked |-> buttonType,
             expecting |-> Opposite(buttonType)]
    ELSE [prev EXCEPT !.lastClicked = NoButton,
                      !.expecting = Opposite(buttonType)]

\* Mutant: after a wrong click the same button is expected again.
NextGameState_WrongClickExpectsSame(prev, buttonType) ==
    IF buttonType = prev.expecting
    THEN LET pair == buttonType = "krishna" /\ prev.lastClicked = "hare"
             newScore == IF pair THEN prev.score + 1 ELSE prev.score
         IN [score |-> newScore,
             malaCount |-> IF pair /\ newScore > 0 /\ newScore % MalaSize = 0
                           THEN prev.malaCount + 1 ELSE prev.malaCount,
             lastClicked |-> buttonType,
             expecting |-> Opposite(buttonType)]
    ELSE [prev EXCEPT !.lastClicked = buttonType, !.expecting = buttonType]

\* The updater passed to setGameState.
NextGameState(prev, buttonType) ==
    IF buttonType = prev.expecting
    THEN \* correct button
         LET pair == buttonType = "krishna" /\ prev.lastClicked = "hare"
             newScore == IF pair THEN prev.score + 1 ELSE prev.score
         IN [score |-> newScore,
             malaCount |-> IF pair /\ newScore > 0 /\ newScore % MalaSize = 0
                           THEN prev.malaCount + 1 ELSE prev.malaCount,
             lastClicked |-> buttonType,
             expecting |-> Opposite(buttonType)]
    ELSE \* wrong button: no score, but the expectation is re-synchronised
         [prev EXCEPT !.lastClicked = buttonType,
                      !.expecting = Opposite(buttonType)]

handleButtonClick(buttonType) ==
    gameState' = NextGameState(gameState, buttonType)

\* A click whose whole history is recorded.
Click(buttonType) ==
    /\ Len(clicks) < MaxClicks
    /\ handleButtonClick(buttonType)
    /\ clicks' = Append(clicks, buttonType)
    /\ UNCHANGED <<boardVars, webVars, client, sideVars>>

\* A click of a long session (no history kept).
LongClick(buttonType) ==
    /\ gameState.score < MaxPairs
    /\ handleButtonClick(buttonType)
    /\ UNCHANGED <<clicks, boardVars, webVars, client, sideVars>>

-----------------------------------------------------------------------------
(* Leaderboard: data *)

Procs == {1, 2}
Names == {"alice", "bob"}
Countries == {"US", "CA"}
Undefined == "undefined"
Null == "null"

\* Request bodies that pass updateScoreSchema (country is optional).
UpdateScore ==
    [playerName : Names, score : 0..MaxSubmitScore, country : Countries \cup {Undefined}]

\* The bodies submitted in the model: every valid body of the first player,
\* and one body of a second player whose entry the others must leave alone.
Submissions ==
    {d \in UpdateScore : d.playerName = "alice"}
        \cup {[playerName |-> "bob", score |-> 1, country |-> "US"]}

NoData == [playerName |-> "", score |-> 0, country |-> Undefined]

\* JavaScript a || b on a string-or-absent value.
OrElse(a, b) == IF a \in {Undefined, Null, ""} THEN b ELSE a

IdleReq ==
    [pc |-> "idle", data |-> NoData, existingPlayer |-> <<>>, now |-> 0,
     target |-> 0, branch |-> "none", status |-> 0, result |-> <<>>]

NoHist ==
    [pre |-> <<>>, preClock |-> 0, prevData |-> <<>>, curData |-> <<>>,
     submitted |-> [n \in Names |-> {}]]

\* Indices of the rows of a table that carry a player name.
RowsByName(table, name) == {i \in DOMAIN table : table[i].playerName = name}

\* The rows a lookup by player name may return (LIMIT 1 / findOne: any match).
Matches(table, name) == {table[i] : i \in RowsByName(table, name)}

\* Mutant: the conversion loses the country.
toLeaderboardEntry_NoCountry(doc) ==
    [id |-> ToString(doc.id),
     playerName |-> doc.playerName,
     score |-> doc.score,
     country |-> Null,
     createdAt |-> doc.createdAt,
     updatedAt |-> doc.updatedAt]

\* MongoStorage's conversion of a stored document to the API entry.
toLeaderboardEntry(doc) ==
    [id |-> ToString(doc.id),
     playerName |-> doc.playerName,
     score |-> doc.score,
     country |-> OrElse(doc.country, Null),
     createdAt |-> doc.createdAt,
     updatedAt |-> doc.updatedAt]

\* Mutant: an equal score is written too.
ScoreIsHigher_OrEqual(data, existingPlayer) == data.score >= existingPlayer.score

\* Mutant: every submission overwrites.
ScoreIsHigher_Always(data, existingPlayer) == data.score >= 0

\* Mutant: the comparison is the wrong way round.
ScoreIsHigher_Inverted(data, existingPlayer) == data.score < existingPlayer.score

\* "Only update if new score is higher"
ScoreIsHigher(data, existingPlayer) == data.score > existingPlayer.score

\* Mutant: the stored country wins over the submitted one.
UpdateSet_KeepCountry(data, existingPlayer, now) ==
    [score |-> data.score,
     country |-> OrElse(existingPlayer.country, data.country),
     updatedAt |-> now]

\* The column values of the update ( .set({...}) / $set ).
UpdateSet(data, existingPlayer, now) ==
    [score |-> data.score,
     country |-> OrElse(data.country, existingPlayer.country),
     updatedAt |-> now]

\* Mutant: the update rewrites the table with the updated row alone.
UpdateWhereId_ReplaceTable(table, id, set) ==
    LET kept == SelectSeq(table, LAMBDA r : r.id = id)
    IN [i \in DOMAIN kept |->
          [kept[i] EXCEPT !.score = set.score,
                          !.country = set.country,
                          !.updatedAt = set.updatedAt]]

\* Mutant: the update has no WHERE clause and rewrites every row.
UpdateWhereId_EveryRow(table, id, set) ==
    [i \in DOMAIN table |->
        [table[i] EXCEPT !.score = set.score,
                         !.country = set.country,
                         !.updatedAt = set.updatedAt]]

\* UPDATE ... WHERE id = ... / updateOne({_id}, {$set})
UpdateWhereId(table, id, set) ==
    [i \in DOMAIN table |->
        IF table[i].id = id
        THEN [table[i] EXCEPT !.score = set.score,
                              !.country = set.country,
                              !.updatedAt = set.updatedAt]
        ELSE table[i]]

\* Mutant: a missing country is stored as it came, without the 'XX' default.
NewRow_NoDefaultCountry(table, data, createdAt, updatedAt) ==
    [id |-> Len(table) + 1,
     playerName |-> data.playerName,
     score |-> data.score,
     country |-> data.country,
     createdAt |-> createdAt,
     updatedAt |-> updatedAt]

\* The row inserted for a new player; ids are generated by the back end.
NewRow(table, data, createdAt, updatedAt) ==
    [id |-> Len(table) + 1,
     playerName |-> data.playerName,
     score |-> data.score,
     country |-> OrElse(data.country, "XX"),
     createdAt |-> createdAt,
     updatedAt |-> updatedAt]

RowById(table, id) == CHOOSE r \in {table[i] : i \in DOMAIN table} : r.id = id

\* The unique index on playerName that connectToMongoDB creates.
DuplicateKey(table, name) == RowsByName(table, name) # {}

-----------------------------------------------------------------------------
(* Leaderboard: the route and the two updatePlayerScore implementations *)

\* res.json(updatedEntry): the storage call returned an entry.
Respond200(p, entry, branch) ==
    [req[p] EXCEPT !.pc = "done", !.status = 200, !.result = <<entry>>,
                   !.branch = branch]

\* Mutant: the catch starts the storage call again instead of answering.
Respond500_Retry(p, branch) ==
    [req[p] EXCEPT !.pc = "lookup", !.branch = branch]

\* The route's catch for an error that is not a ZodError.
Respond500(p, branch) ==
    [req[p] EXCEPT !.pc = "done", !.status = 500, !.result = <<>>,
                   !.branch = branch]

\* POST /api/leaderboard/score with a valid body: the handler runs up to the
\* first await of updatePlayerScore (MongoStorage reads the clock first).
Submit(p, data) ==
    /\ req[p].pc \in {"idle", "done"}
    /\ nsub < MaxSubs
    /\ nsub' = nsub + 1
    /\ req' = [req EXCEPT ![p] =
                 [IdleReq EXCEPT !.pc = "lookup", !.data = data,
                                 !.now = IF backend = "mongo" THEN clock ELSE 0]]
    /\ UNCHANGED <<backend, store, clock, clickVars, qry, sideVars>>

\* DatabaseStorage: the select by playerName returns, and the code branches.
PgSelect(p) ==
    /\ backend = "pg"
    /\ req[p].pc = "lookup"
    /\ LET data == req[p].data
           found == Matches(store, data.playerName)
       IN IF found = {}
          THEN req' = [req EXCEPT ![p].pc = "insert"]
          ELSE \E existingPlayer \in found :
                 IF ScoreIsHigher(data, existingPlayer)
                 THEN req' = [req EXCEPT ![p].pc = "update",
                                         ![p].existingPlayer = <<existingPlayer>>,
                                         ![p].now = clock]
                 ELSE req' = [req EXCEPT ![p] =
                                [Respond200(p, existingPlayer, "dominated")
                                   EXCEPT !.existingPlayer = <<existingPlayer>>]]
    /\ UNCHANGED <<backend, store, clock, nsub, hist, clickVars, webVars, client, sideVars>>

\* DatabaseStorage: update ... returning.
PgUpdate(p) ==
    /\ backend = "pg"
    /\ req[p].pc = "update"
    /\ LET existingPlayer == req[p].existingPlayer[1]
           set == UpdateSet(req[p].data, existingPlayer, req[p].now)
       IN /\ store' = UpdateWhereId(store, existingPlayer.id, set)
          /\ req' = [req EXCEPT ![p] =
                       Respond200(p, RowById(store', existingPlayer.id), "update")]
    /\ UNCHANGED <<backend, clock, nsub, hist, clickVars, webVars, client, sideVars>>

\* DatabaseStorage: insert ... returning (the table has no unique constraint
\* on player_name; created_at and updated_at default to now()).
PgInsert(p) ==
    /\ backend = "pg"
    /\ req[p].pc = "insert"
    /\ LET newPlayer == NewRow(store, req[p].data, clock, clock)
       IN /\ store' = Append(store, newPlayer)
          /\ req' = [req EXCEPT ![p] = Respond200(p, newPlayer, "insert")]
    /\ UNCHANGED <<backend, clock, nsub, hist, clickVars, webVars, client, sideVars>>

\* MongoStorage: findOne({playerName}) returns, and the code branches.
MongoFindOne(p) ==
    /\ backend = "mongo"
    /\ req[p].pc = "lookup"
    /\ LET data == req[p].data
           found == Matches(store, data.playerName)
       IN IF found = {}
          THEN req' = [req EXCEPT ![p].pc = "insert"]
          ELSE \E existingPlayer \in found :
                 IF ScoreIsHigher(data, existingPlayer)
                 THEN req' = [req EXCEPT ![p].pc = "update",
                                         ![p].existingPlayer = <<existingPlayer>>]
                 ELSE req' = [req EXCEPT ![p] =
                                [Respond200(p, toLeaderboardEntry(existingPlayer),
                                            "dominated")
                                   EXCEPT !.existingPlayer = <<existingPlayer>>]]
    /\ UNCHANGED <<backend, store, clock, nsub, hist, clickVars, webVars, client, sideVars>>

\* MongoStorage: updateOne({_id}, {$set}).
MongoUpdateOne(p) ==
    /\ backend = "mongo"
    /\ req[p].pc = "update"
    /\ LET existingPlayer == req[p].existingPlayer[1]
           set == UpdateSet(req[p].data, existingPlayer, req[p].now)
       IN /\ store' = UpdateWhereId(store, existingPlayer.id, set)
          /\ req' = [req EXCEPT ![p].pc = "reread",
                                ![p].target = existingPlayer.id,
                                ![p].branch = "update"]
    /\ UNCHANGED <<backend, clock, nsub, hist, clickVars, webVars, client, sideVars>>

\* MongoStorage: insertOne; the unique index on playerName rejects a second
\* document of the same name, and the error reaches the route's catch.
MongoInsertOne(p) ==
    /\ backend = "mongo"
    /\ req[p].pc = "insert"
    /\ IF DuplicateKey(store, req[p].data.playerName)
       THEN /\ req' = [req EXCEPT ![p] = Respond500(p, "insert")]
            /\ store' = store
       ELSE LET doc == NewRow(store, req[p].data, req[p].now, req[p].now)
            IN /\ store' = Append(store, doc)
               /\ req' = [req EXCEPT ![p].pc = "reread",
                                     ![p].target = doc.id,
                                     ![p].branch = "insert"]
    /\ UNCHANGED <<backend, clock, nsub, hist, clickVars, webVars, client, sideVars>>

\* MongoStorage: the findOne({_id}) after a write, converted and returned.
MongoFindById(p) ==
    /\ backend = "mongo"
    /\ req[p].pc = "reread"
    /\ req' = [req EXCEPT ![p] =
                 Respond200(p, toLeaderboardEntry(RowById(store, req[p].target)),
                            req[p].branch)]
    /\ UNCHANGED <<backend, store, clock, nsub, hist, clickVars, webVars, client, sideVars>>

\* Time passes.
Tick ==
    /\ clock < MaxTime
    /\ clock' = clock + 1
    /\ UNCHANGED <<backend, store, req, nsub, hist, clickVars, webVars, client, sideVars>>

StorageStep(p) ==
    \/ PgSelect(p)
    \/ PgUpdate(p)
    \/ PgInsert(p)
    \/ MongoFindOne(p)
    \/ MongoUpdateOne(p)
    \/ MongoInsertOne(p)
    \/ MongoFindById(p)

\* The positions at which a request waits for the answer of the back end.
Awaiting == {"lookup", "update", "insert", "reread"}

\* The storage operation a request waits for fails (connection lost, back
\* end down): the rejected await leaves updatePlayerScore, which has no
\* catch, and the route answers 500.
StorageFails(p) ==
    /\ req[p].pc \in Awaiting
    /\ req' = [req EXCEPT ![p] = Respond500(p, "failed")]
    /\ UNCHANGED <<backend, store, clock, nsub, hist, clickVars, webVars, client, sideVars>>

\* A submission that may overlap the other requests.
ConcurrentSubmit(p, data) ==
    /\ Submit(p, data)
    /\ UNCHANGED <<hist, raw, client>>

\* The one connection a sequential client submits through.
SeqProc == CHOOSE p \in Procs : \A q \in Procs : p <= q

Quiescent == \A q \in Procs : req[q].pc \in {"idle", "done"}

\* A submission made when no other request is in flight; the history keeps
\* the store and clock it started from and what was submitted before.
SequentialSubmit(p, data) ==
    /\ Quiescent
    /\ p = SeqProc
    /\ Submit(p, data)
    /\ hist' = [pre |-> store,
                preClock |-> clock,
                prevData |-> hist.curData,
                curData |-> <<data>>,
                submitted |-> [hist.submitted EXCEPT ![data.playerName] =
                                 @ \cup {data.score}]]
    /\ UNCHANGED <<raw, client>>

-----------------------------------------------------------------------------
(* Leaderboard: validation of the request body *)

\* A JSON number as it arrives in a body: the fraction num/den, den > 0.
Whole(n) == [num |-> n, den |-> 1]
Fraction(n, d) == [num |-> n, den |-> d]

\* The body a client sends for validated data.
RawOf(data) ==
    [playerName |-> data.playerName, score |-> Whole(data.score),
     country |-> data.country]

\* Mutant: the schema without .min(0) on score.
updateScoreSchema_NoMinScore(body) ==
    /\ Len(body.playerName) >= 1
    /\ Len(body.playerName) <= MaxNameLen
    /\ body.score.num % body.score.den = 0
    /\ body.country = Undefined \/ Len(body.country) = CountryLen

\* updateScoreSchema.parse(req.body) does not throw.
updateScoreSchema(body) ==
    /\ Len(body.playerName) >= 1
    /\ Len(body.playerName) <= MaxNameLen
    /\ body.score.num % body.score.den = 0
    /\ body.score.num >= 0
    /\ body.country = Undefined \/ Len(body.country) = CountryLen

\* The value updateScoreSchema.parse returns for a body that passes.
validatedData(body) ==
    [playerName |-> body.playerName, score |-> body.score.num \div body.score.den,
     country |-> body.country]

\* A name of exactly MaxNameLen characters, and one character more.
Name50 == "abcdefghijabcdefghijabcdefghijabcdefghijabcdefghij"
Name51 == "abcdefghijabcdefghijabcdefghijabcdefghijabcdefghijk"

\* Bodies the schema must turn away, one per rule (and per side of a rule).
BadBodies ==
    { [playerName |-> "",      score |-> Whole(1),       country |-> "US"],
      [playerName |-> Name51,  score |-> Whole(1),       country |-> "US"],
      [playerName |-> "alice", score |-> Whole(-1),      country |-> "US"],
      [playerName |-> "alice", score |-> Fraction(3, 2), country |-> "US"],
      [playerName |-> "alice", score |-> Whole(2),       country |-> "U"],
      [playerName |-> "alice", score |-> Whole(2),       country |-> "USA"],
      [playerName |-> "alice", score |-> Whole(2),       country |-> ""],
      [playerName |-> "",      score |-> Whole(-1),      country |-> Undefined] }

\* The bodies posted to the route: the model's submissions as they arrive,
\* the longest name allowed, and the bad bodies.
PostBodies ==
    {RawOf(data) : data \in Submissions}
        \cup {[playerName |-> Name50, score |-> Whole(1), country |-> Undefined]}
        \cup BadBodies

\* The route's catch for a ZodError.
Respond400 == [IdleReq EXCEPT !.pc = "done", !.status = 400]

\* POST /api/leaderboard/score with any body, up to the first await (the
\* sender's own state is left to the sender).
PostScore(p, body) ==
    /\ Quiescent
    /\ p = SeqProc
    /\ raw' = [raw EXCEPT ![p] = <<body>>]
    /\ IF updateScoreSchema(body)
       THEN /\ Submit(p, validatedData(body))
            /\ UNCHANGED hist
       ELSE /\ req' = [req EXCEPT ![p] = Respond400]
            /\ UNCHANGED <<backend, store, clock, nsub, hist, clickVars, qry, sideVars>>

\* A body posted by some other program than the Leaderboard component.
DirectPost(p, body) ==
    /\ PostScore(p, body)
    /\ UNCHANGED client

-----------------------------------------------------------------------------
(* Leaderboard: the read routes and the storage queries *)

\* A JavaScript number that may be NaN, and a value that may be null or
\* undefined: the empty sequence, or the one-element sequence of the value.
NaN == <<>>
Missing == <<>>
Num(n) == <<n>>

\* A query-string parameter: absent, or present with its characters.
Absent == <<>>
Param(chars) == <<chars>>

DigitChars == <<"0", "1", "2", "3", "4", "5", "6", "7", "8", "9">>
IsDigit(c) == \E i \in DOMAIN DigitChars : DigitChars[i] = c
DigitValue(c) == (CHOOSE i \in DOMAIN DigitChars : DigitChars[i] = c) - 1

\* Number of digits a string starts with.
RECURSIVE LeadingDigits(_)
LeadingDigits(chars) ==
    IF chars # <<>> /\ IsDigit(Head(chars))
    THEN 1 + LeadingDigits(Tail(chars))
    ELSE 0

\* Value of a string of digits.
RECURSIVE DecimalValue(_)
DecimalValue(digits) ==
    IF digits = <<>>
    THEN 0
    ELSE 10 * DecimalValue(SubSeq(digits, 1, Len(digits) - 1))
            + DigitValue(digits[Len(digits)])

\* JavaScript parseInt(string): an optional sign, then the leading digits;
\* what follows the digits is ignored, and no digit at all gives NaN.
parseInt(chars) ==
    LET signed == chars # <<>> /\ Head(chars) \in {"-", "+"}
        rest == IF signed THEN Tail(chars) ELSE chars
        n == LeadingDigits(rest)
        value == DecimalValue(SubSeq(rest, 1, n))
    IN IF n = 0
       THEN NaN
       ELSE IF signed /\ Head(chars) = "-" THEN Num(0 - value) ELSE Num(value)

\* req.query.limit ? parseInt(req.query.limit) : default
\* (an absent parameter and the empty string are falsy; "0" is not).
QueryLimit(param, default) ==
    IF param # Absent /\ param[1] # <<>> THEN parseInt(param[1]) ELSE Num(default)

\* The limit parameters tried: absent, 0, 1, 2, a negative number, a string
\* that is no number, and a number followed by other characters.
LimitParams ==
    { Absent, Param(<<"0">>), Param(<<"1">>), Param(<<"2">>),
      Param(<<"-", "1">>), Param(<<"a", "b", "c">>), Param(<<"1", "x">>) }

\* The :country path parameters tried.
CountryParams == {"US", "CA", "USA"}

IdleQuery ==
    [pc |-> "idle", route |-> "none", limitParam |-> Absent, country |-> "",
     limit |-> NaN, seen |-> <<>>, status |-> 0, body |-> <<>>]

\* Indices of the rows of a country ( WHERE country = ... / find({country}) ).
RowsByCountry(table, country) == {i \in DOMAIN table : table[i].country = country}

\* ORDER BY score DESC / sort({score: -1}) over the selected rows: every
\* order of them with non-increasing scores (ties come in any order).
OrderByScoreDesc(table, rows) ==
    LET n == Cardinality(rows)
        orders == {f \in [1..n -> rows] :
                     /\ \A i, j \in 1..n : i # j => f[i] # f[j]
                     /\ \A i \in 1..n - 1 : table[f[i]].score >= table[f[i + 1]].score}
    IN {[k \in 1..n |-> table[f[k]]] : f \in orders}

Take(seq, n) == SubSeq(seq, 1, IF n < Len(seq) THEN n ELSE Len(seq))

\* A storage call either returns rows or throws.
Rows(rows) == [ok |-> TRUE, rows |-> rows]
Throws == [ok |-> FALSE, rows |-> <<>>]

\* drizzle's .limit(n) on Postgres: LIMIT n is part of the statement when n
\* is a number >= 0 (LIMIT 0 selects no row); otherwise there is no LIMIT.
PgLimit(sorted, limit) ==
    IF limit # NaN /\ limit[1] >= 0
    THEN Rows(Take(sorted, limit[1]))
    ELSE Rows(sorted)

\* The MongoDB cursor's .limit(n): 0 means no limit, a negative n is the
\* limit -n, NaN is refused by the server.
MongoLimit(sorted, limit) ==
    IF limit = NaN
    THEN Throws
    ELSE IF limit[1] = 0
         THEN Rows(sorted)
         ELSE Rows(Take(sorted, IF limit[1] < 0 THEN 0 - limit[1] ELSE limit[1]))

\* What a list query hands back: the rows, through toLeaderboardEntry on
\* MongoStorage.
Entries(rows) ==
    [k \in DOMAIN rows |->
        IF backend = "mongo" THEN toLeaderboardEntry(rows[k]) ELSE rows[k]]

\* The ordered and limited rows of a list query, in either back end.
SelectTop(rows, limit) ==
    {IF backend = "mongo" THEN MongoLimit(sorted, limit) ELSE PgLimit(sorted, limit) :
        sorted \in OrderByScoreDesc(store, rows)}

RECURSIVE SumScores(_)
SumScores(table) ==
    IF table = <<>> THEN 0 ELSE table[1].score + SumScores(Tail(table))

\* select sum(score) from leaderboard_entries, as the db module hands it to
\* the caller: one row, whose total is NULL over an empty table.
SqlSum(table) ==
    <<[total |-> IF table = <<>> THEN Missing ELSE Num(SumScores(table))]>>

\* aggregate([{$group: {_id: null, total: {$sum: '$score'}}}]).toArray():
\* one document, or none over an empty collection.
GroupSum(table) ==
    IF table = <<>> THEN <<>> ELSE <<[total |-> Num(SumScores(table))]>>

\* Mutant: the total without the || 0 fallback.
TotalOrZero_NoFallback(result) ==
    IF result = <<>> THEN Missing ELSE result[1].total

\* result[0]?.total || 0
TotalOrZero(result) ==
    LET total == IF result = <<>> THEN Missing ELSE result[1].total
    IN IF total = Missing \/ total = Num(0) THEN Num(0) ELSE total

\* The route answers with what the storage call returned, or with 500.
QueryDone(outcome, body) ==
    IF outcome.ok
    THEN [qry EXCEPT !.pc = "done", !.seen = store, !.status = 200, !.body = body]
    ELSE [qry EXCEPT !.pc = "done", !.seen = store, !.status = 500, !.body = <<>>]

\* GET /api/leaderboard/global, up to the await of the storage call.
RouteGlobal(param) ==
    /\ qry.pc \in {"idle", "done"}
    /\ qry' = [IdleQuery EXCEPT !.pc = "call", !.route = "global",
                                !.limitParam = param,
                                !.limit = QueryLimit(param, DefaultGlobalLimit)]
    /\ UNCHANGED <<boardVars, clickVars, raw, client, sideVars>>

\* GET /api/leaderboard/country/:country, up to the await of the storage call.
RouteCountry(country, param) ==
    /\ qry.pc \in {"idle", "done"}
    /\ qry' = [IdleQuery EXCEPT !.pc = "call", !.route = "country",
                                !.country = country,
                                !.limitParam = param,
                                !.limit = QueryLimit(param, DefaultCountryLimit)]
    /\ UNCHANGED <<boardVars, clickVars, raw, client, sideVars>>

\* GET /api/leaderboard/total, up to the await of the storage call.
RouteTotal ==
    /\ qry.pc \in {"idle", "done"}
    /\ qry' = [IdleQuery EXCEPT !.pc = "call", !.route = "total"]
    /\ UNCHANGED <<boardVars, clickVars, raw, client, sideVars>>

\* storage.getGlobalLeaderboard(limit) reads the store and the route answers.
getGlobalLeaderboard ==
    /\ qry.pc = "call"
    /\ qry.route = "global"
    /\ \E outcome \in SelectTop(DOMAIN store, qry.limit) :
         qry' = QueryDone(outcome, Entries(outcome.rows))
    /\ UNCHANGED <<boardVars, clickVars, raw, client, sideVars>>

\* storage.getCountryLeaderboard(country, limit) reads the store and the
\* route answers.
getCountryLeaderboard ==
    /\ qry.pc = "call"
    /\ qry.route = "country"
    /\ \E outcome \in SelectTop(RowsByCountry(store, qry.country), qry.limit) :
         qry' = QueryDone(outcome, Entries(outcome.rows))
    /\ UNCHANGED <<boardVars, clickVars, raw, client, sideVars>>

\* storage.getTotalGlobalScore() reads the store and the route answers
\* {totalScore}.
getTotalGlobalScore ==
    /\ qry.pc = "call"
    /\ qry.route = "total"
    /\ LET result == IF backend = "mongo" THEN GroupSum(store) ELSE SqlSum(store)
       IN qry' = QueryDone(Rows(<<>>), <<[totalScore |-> TotalOrZero(result)]>>)
    /\ UNCHANGED <<boardVars, clickVars, raw, client, sideVars>>

\* The bodies submitted while the leaderboard is queried: a third player
\* joins the model's submissions.
QuerySubmissions ==
    Submissions \cup {[playerName |-> "carol", score |-> 2, country |-> "CA"]}

\* A submission made when no other submission is in flight.
QuerySubmit(data) ==
    /\ Quiescent
    /\ ConcurrentSubmit(SeqProc, data)

-----------------------------------------------------------------------------
(* The Leaderboard component: country detection and score submission *)

\* The query keys of the three cached views.
GlobalKey == "/api/leaderboard/global"
CountryKey == "/api/leaderboard/country"
TotalKey == "/api/leaderboard/total"

\* What the geolocation lookup may do: answer with a text body (a country
\* code, nothing, or some other text such as an error message), or fail.
GeoOutcomes ==
    { [ok |-> TRUE,  text |-> "US"],
      [ok |-> TRUE,  text |-> ""],
      [ok |-> TRUE,  text |-> "Undefined"],
      [ok |-> FALSE, text |-> ""] }

\* getUserCountry: the body, 'XX' for an empty body or a failed fetch.
getUserCountry(outcome) ==
    IF outcome.ok
    THEN IF outcome.text = "" THEN "XX" ELSE outcome.text
    ELSE "XX"

\* The text of the name input: a core with blanks before and after it.
Typed(lead, core, trail) == [lead |-> lead, core |-> core, trail |-> trail]

\* playerName.trim()
Trim(typed) == typed.core

TypedNames ==
    {Typed(0, "", 0), Typed(1, "", 1), Typed(0, "alice", 0), Typed(1, "alice", 1)}

IdleClient ==
    [geo |-> "pending", userCountry |-> "XX", playerName |-> Typed(0, "", 0),
     mut |-> "idle", sent |-> <<>>, invalidated |-> {}]

\* apiRequest resolves for a response with an ok status and rejects otherwise.
apiRequestResolves(status) == status >= 200 /\ status <= 299

\* Mutant: onSuccess forgets the total view.
InvalidatedOnSuccess_NoTotal == {GlobalKey, CountryKey}

\* The views onSuccess invalidates.
InvalidatedOnSuccess == {GlobalKey, CountryKey, TotalKey}

\* The effect on mount: getUserCountry().then(setUserCountry).
GeoResolves(outcome) ==
    /\ client.geo = "pending"
    /\ client' = [client EXCEPT !.geo = "done",
                                !.userCountry = getUserCountry(outcome)]
    /\ UNCHANGED <<boardVars, clickVars, webVars, sideVars>>

\* The player edits the name input.
setPlayerName(typed) ==
    /\ client.playerName # typed
    /\ client' = [client EXCEPT !.playerName = typed]
    /\ UNCHANGED <<boardVars, clickVars, webVars, sideVars>>

\* handleSubmitScore with the current score of the game: nothing happens
\* for a blank name or a score of 0; otherwise the mutation starts and its
\* request reaches the server.
handleSubmitScore(currentScore) ==
    /\ client.mut # "pending"
    /\ Trim(client.playerName) # ""
    /\ currentScore # 0
    /\ LET data == [playerName |-> Trim(client.playerName),
                    score |-> currentScore,
                    country |-> client.userCountry]
       IN /\ PostScore(SeqProc, RawOf(data))
          /\ client' = [client EXCEPT !.mut = "pending",
                                      !.sent = <<RawOf(data)>>,
                                      !.invalidated = {}]

\* The response arrives: the mutation succeeds and onSuccess runs, or the
\* mutation fails.
MutationSettles ==
    /\ client.mut = "pending"
    /\ req[SeqProc].pc = "done"
    /\ IF apiRequestResolves(req[SeqProc].status)
       THEN client' = [client EXCEPT !.mut = "success",
                                     !.invalidated = InvalidatedOnSuccess]
       ELSE client' = [client EXCEPT !.mut = "error"]
    /\ UNCHANGED <<boardVars, clickVars, webVars, sideVars>>

\* The request fails on the network: fetch rejects and the mutation fails.
NetworkError ==
    /\ client.mut = "pending"
    /\ client' = [client EXCEPT !.mut = "error"]
    /\ UNCHANGED <<boardVars, clickVars, webVars, sideVars>>

-----------------------------------------------------------------------------
(* Accounts: email tokens, verify-email and set-password *)

\* The values generateVerificationToken produces (each at most once).
Tokens == 1..MaxTokens

\* The (username, email) pairs people sign up with; the second shares the
\* email of the first.
Accounts ==
    { [username |-> "ann",  email |-> "ann@example.org"],
      [username |-> "anna", email |-> "ann@example.org"] }

NoAuthReq ==
    [pc |-> "idle", route |-> "none", token |-> 0, account |-> <<>>,
     emailToken |-> <<>>, status |-> 0, branch |-> "none"]

NoAuth ==
    [users |-> <<>>, tokens |-> {}, issued |-> {}, succeeded |-> {},
     areq |-> [a \in Procs |-> NoAuthReq]]

\* What an auth action leaves alone, besides the clock.
authFrame ==
    <<gameState, clicks, backend, store, req, nsub, hist, raw, qry, client, twin>>

\* Mutant: the users table without its unique constraints.
UserExists_NoUnique(users, username, email) == FALSE

\* The unique constraints on users.username and users.email: an insert of
\* either value a second time is refused.
UserExists(users, username, email) ==
    \E i \in DOMAIN users : users[i].username = username \/ users[i].email = email

\* select ... from email_tokens where token = ...
EmailTokensOf(token) == {r \in auth.tokens : r.token = token}

\* delete from email_tokens where token = ...
WithoutToken(token) == {r \in auth.tokens : r.token # token}

AuthAnswer(a, status, branch) ==
    [auth.areq[a] EXCEPT !.pc = "done", !.status = status, !.branch = branch]

AuthIdle(a) == auth.areq[a].pc \in {"idle", "done"}

\* Token values not yet produced and not held by a request about to store one.
FreshTokens ==
    Tokens \ (auth.issued
                \cup {auth.areq[a].emailToken[1].token :
                        a \in {b \in Procs : /\ auth.areq[b].route = "create-account"
                                             /\ auth.areq[b].pc = "createToken"}})

\* POST /api/auth/create-account, up to the await of getUserByEmail.
CreateAccount(a, account) ==
    /\ AuthIdle(a)
    /\ auth' = [auth EXCEPT !.areq[a] =
                  [NoAuthReq EXCEPT !.pc = "checkEmail", !.route = "create-account",
                                    !.account = <<account>>]]
    /\ UNCHANGED <<authFrame, clock>>

\* getUserByEmail returns.
CheckEmail(a) ==
    /\ auth.areq[a].pc = "checkEmail"
    /\ LET email == auth.areq[a].account[1].email
       IN IF \E i \in DOMAIN auth.users : auth.users[i].email = email
          THEN auth' = [auth EXCEPT !.areq[a] = AuthAnswer(a, 400, "registered")]
          ELSE auth' = [auth EXCEPT !.areq[a].pc = "checkUsername"]
    /\ UNCHANGED <<authFrame, clock>>

\* getUserByUsername returns; the token is generated with its expiry.
CheckUsername(a) ==
    /\ auth.areq[a].pc = "checkUsername"
    /\ LET account == auth.areq[a].account[1]
       IN IF \E i \in DOMAIN auth.users : auth.users[i].username = account.username
          THEN auth' = [auth EXCEPT !.areq[a] = AuthAnswer(a, 400, "taken")]
          ELSE /\ FreshTokens # {}
               /\ \E token \in FreshTokens :
                    auth' = [auth EXCEPT !.areq[a].pc = "createToken",
                                         !.areq[a].token = token,
                                         !.areq[a].emailToken =
                                            <<[token |-> token,
                                               email |-> account.email,
                                               username |-> account.username,
                                               expiresAt |-> clock + TokenLifetime]>>]
    /\ UNCHANGED <<authFrame, clock>>

\* createEmailToken; the mail is sent or not, and the route answers 200.
CreateEmailToken(a) ==
    /\ auth.areq[a].pc = "createToken"
    /\ auth' = [auth EXCEPT !.tokens = @ \cup {auth.areq[a].emailToken[1]},
                            !.issued = @ \cup {auth.areq[a].token},
                            !.areq[a] = AuthAnswer(a, 200, "mailed")]
    /\ UNCHANGED <<authFrame, clock>>

\* GET /api/auth/verify-email?token=..., up to the await of getEmailToken.
VerifyEmail(a, token) ==
    /\ AuthIdle(a)
    /\ auth' = [auth EXCEPT !.areq[a] =
                  [NoAuthReq EXCEPT !.pc = "getToken", !.route = "verify-email",
                                    !.token = token]]
    /\ UNCHANGED <<authFrame, clock>>

\* POST /api/auth/set-password {token, password}, up to the await of
\* getEmailToken.
SetPassword(a, token) ==
    /\ AuthIdle(a)
    /\ auth' = [auth EXCEPT !.areq[a] =
                  [NoAuthReq EXCEPT !.pc = "getToken", !.route = "set-password",
                                    !.token = token]]
    /\ UNCHANGED <<authFrame, clock>>

\* getEmailToken returns, and the route tests the token and its expiry.
GetEmailToken(a) ==
    /\ auth.areq[a].pc = "getToken"
    /\ LET found == EmailTokensOf(auth.areq[a].token)
       IN IF found = {}
          THEN auth' = [auth EXCEPT !.areq[a] = AuthAnswer(a, 400, "invalid")]
          ELSE \E emailToken \in found :
                 IF emailToken.expiresAt < clock
                 THEN auth' = [auth EXCEPT !.areq[a].pc = "deleteExpired",
                                           !.areq[a].emailToken = <<emailToken>>]
                 ELSE IF auth.areq[a].route = "verify-email"
                      THEN auth' = [auth EXCEPT !.areq[a] =
                                      [AuthAnswer(a, 302, "redirect")
                                         EXCEPT !.emailToken = <<emailToken>>]]
                      ELSE auth' = [auth EXCEPT !.areq[a].pc = "hash",
                                                !.areq[a].emailToken = <<emailToken>>]
    /\ UNCHANGED <<authFrame, clock>>

\* deleteEmailToken of an expired token, answered 400.
DeleteExpiredToken(a) ==
    /\ auth.areq[a].pc = "deleteExpired"
    /\ auth' = [auth EXCEPT !.tokens = WithoutToken(auth.areq[a].token),
                            !.areq[a] = AuthAnswer(a, 400, "expired")]
    /\ UNCHANGED <<authFrame, clock>>

\* hashPassword resolves.
HashPassword(a) ==
    /\ auth.areq[a].pc = "hash"
    /\ auth' = [auth EXCEPT !.areq[a].pc = "createUser"]
    /\ UNCHANGED <<authFrame, clock>>

\* createUser: the insert, refused by a unique constraint (the error
\* reaches the catch, 500) or done.
CreateUser(a) ==
    /\ auth.areq[a].pc = "createUser"
    /\ LET emailToken == auth.areq[a].emailToken[1]
       IN IF UserExists(auth.users, emailToken.username, emailToken.email)
          THEN auth' = [auth EXCEPT !.areq[a] = AuthAnswer(a, 500, "conflict")]
          ELSE auth' = [auth EXCEPT
                          !.users = Append(@, [id |-> Len(auth.users) + 1,
                                               username |-> emailToken.username,
                                               email |-> emailToken.email,
                                               viaToken |-> emailToken.token]),
                          !.areq[a].pc = "deleteToken"]
    /\ UNCHANGED <<authFrame, clock>>

\* deleteEmailToken after the user was created, answered 200.
DeleteEmailToken(a) ==
    /\ auth.areq[a].pc = "deleteToken"
    /\ auth' = [auth EXCEPT !.tokens = WithoutToken(auth.areq[a].token),
                            !.succeeded = @ \cup {auth.areq[a].token},
                            !.areq[a] = AuthAnswer(a, 200, "created")]
    /\ UNCHANGED <<authFrame, clock>>

\* Time passes (in units of the token lifetime).
AuthTick ==
    /\ clock < MaxAuthTime
    /\ clock' = clock + 1
    /\ UNCHANGED <<authFrame, auth>>

AuthStep(a) ==
    \/ CheckEmail(a)
    \/ CheckUsername(a)
    \/ CreateEmailToken(a)
    \/ GetEmailToken(a)
    \/ DeleteExpiredToken(a)
    \/ HashPassword(a)
    \/ CreateUser(a)
    \/ DeleteEmailToken(a)

-----------------------------------------------------------------------------
(* The same submissions on the one storage implementation, then the other *)

NoTwin == [phase |-> "first", log |-> <<>>]

OtherBackend(b) == IF b = "pg" THEN "mongo" ELSE "pg"

\* A submission of the first run, made when the call before it is on record.
PairSubmit(data) ==
    /\ twin.phase = "first"
    /\ Quiescent
    /\ Len(twin.log) = nsub
    /\ ConcurrentSubmit(SeqProc, data)

\* The call of the first run has returned: what it was given, what it
\* answered and the store it left are put on record.
PairRecord ==
    /\ twin.phase = "first"
    /\ req[SeqProc].pc = "done"
    /\ Len(twin.log) < nsub
    /\ twin' = [twin EXCEPT !.log = Append(@, [data |-> req[SeqProc].data,
                                                store |-> store,
                                                status |-> req[SeqProc].status,
                                                result |-> req[SeqProc].result])]
    /\ UNCHANGED <<boardVars, clickVars, webVars, client, auth>>

\* The second run starts: the other implementation, on an empty store.
SwitchBackend ==
    /\ twin.phase = "first"
    /\ Quiescent
    /\ nsub >= 1
    /\ Len(twin.log) = nsub
    /\ backend' = OtherBackend(backend)
    /\ store' = <<>>
    /\ req' = [p \in Procs |-> IdleReq]
    /\ nsub' = 0
    /\ twin' = [twin EXCEPT !.phase = "replay"]
    /\ UNCHANGED <<clock, hist, clickVars, webVars, client, auth>>

\* The next submission of the record is made to the second implementation.
Replay ==
    /\ twin.phase = "replay"
    /\ Quiescent
    /\ nsub < Len(twin.log)
    /\ ConcurrentSubmit(SeqProc, twin.log[nsub + 1].data)

-----------------------------------------------------------------------------
(* Specifications *)

Init ==
    /\ gameState = InitialGameState
    /\ clicks = <<>>
    /\ backend \in {"pg", "mongo"}
    /\ store = <<>>
    /\ clock = 0
    /\ req = [p \in Procs |-> IdleReq]
    /\ nsub = 0
    /\ hist = NoHist
    /\ raw = [p \in Procs |-> <<>>]
    /\ qry = IdleQuery
    /\ client = IdleClient
    /\ auth = NoAuth
    /\ twin = NoTwin

\* Concurrent submissions against the leaderboard.
Next ==
    \/ \E p \in Procs, data \in Submissions : ConcurrentSubmit(p, data)
    \/ \E p \in Procs : StorageStep(p)
    \/ Tick

Spec == Init /\ [][Next]_vars

\* Submissions one after another.
SeqNext ==
    \/ \E p \in Procs, data \in Submissions : SequentialSubmit(p, data)
    \/ \E p \in Procs : StorageStep(p)
    \/ Tick

SeqSpec == Init /\ [][SeqNext]_vars

\* The click sequencer, with the click history.
ClickNext == \E b \in ButtonType : Click(b)

ClickSpec == Init /\ [][ClickNext]_vars

\* The click sequencer over a long session.
MalaNext == \E b \in ButtonType : LongClick(b)

MalaSpec == Init /\ [][MalaNext]_vars

\* The score route fed with valid and invalid bodies, one request at a time.
PostNext ==
    \/ \E p \in Procs, body \in PostBodies : DirectPost(p, body)
    \/ \E p \in Procs : StorageStep(p)

PostSpec == Init /\ [][PostNext]_vars

\* The two list routes, served while players submit scores.
QueryNext ==
    \/ \E data \in QuerySubmissions : QuerySubmit(data)
    \/ \E p \in Procs : StorageStep(p)
    \/ \E param \in LimitParams : RouteGlobal(param)
    \/ \E country \in CountryParams, param \in LimitParams : RouteCountry(country, param)
    \/ getGlobalLeaderboard
    \/ getCountryLeaderboard

QuerySpec == Init /\ [][QueryNext]_vars

\* The total route, served while players submit scores.
TotalNext ==
    \/ \E data \in QuerySubmissions : QuerySubmit(data)
    \/ \E p \in Procs : StorageStep(p)
    \/ RouteTotal
    \/ getTotalGlobalScore

TotalSpec == Init /\ [][TotalNext]_vars

\* Concurrent submissions against a back end whose operations may fail.
FailNext ==
    \/ \E p \in Procs, data \in Submissions : ConcurrentSubmit(p, data)
    \/ \E p \in Procs : StorageStep(p)
    \/ \E p \in Procs : StorageFails(p)

FailSpec == Init /\ [][FailNext]_vars

\* One browser submitting scores to a server whose back end may fail.
ClientNext ==
    \/ \E outcome \in GeoOutcomes : GeoResolves(outcome)
    \/ \E typed \in TypedNames : setPlayerName(typed)
    \/ \E currentScore \in 0..MaxSubmitScore : handleSubmitScore(currentScore)
    \/ \E p \in Procs : StorageStep(p)
    \/ \E p \in Procs : StorageFails(p)
    \/ MutationSettles
    \/ NetworkError

ClientSpec == Init /\ [][ClientNext]_vars

\* Sign-up: accounts are requested, verified and given a password.
AuthNext ==
    \/ \E a \in Procs, account \in Accounts : CreateAccount(a, account)
    \/ \E a \in Procs, token \in Tokens : VerifyEmail(a, token)
    \/ \E a \in Procs, token \in Tokens : SetPassword(a, token)
    \/ \E a \in Procs : AuthStep(a)
    \/ AuthTick

AuthSpec == Init /\ [][AuthNext]_vars

\* A sequence of submissions on one storage implementation, then the same
\* sequence on the other.
PairNext ==
    \/ \E data \in Submissions : PairSubmit(data)
    \/ PairRecord
    \/ SwitchBackend
    \/ Replay
    \/ \E p \in Procs : StorageStep(p)

PairSpec == Init /\ [][PairNext]_vars

-----------------------------------------------------------------------------
(* Properties *)

Max(S) == CHOOSE x \in S : \A y \in S : y <= x

StoredScores(name) == {store[i].score : i \in RowsByName(store, name)}

\* What the storage call returns for a stored row.
EntryOf(row) == IF backend = "mongo" THEN toLeaderboardEntry(row) ELSE row

Done(p) == req[p].pc = "done"

\* Number of positions of a click sequence where krishna directly follows hare.
PairCount(seq) ==
    Cardinality({i \in 2..Len(seq) : seq[i] = "krishna" /\ seq[i - 1] = "hare"})

\* C1: two submissions for one player with different scores, each of which
\* looked up an entry whose score is below both, have both completed: the
\* stored score of that player is the higher of the two.
C1_HigherOfRacingScoresWins ==
    \A p, q \in Procs :
        ( /\ p # q
          /\ Done(p) /\ Done(q)
          /\ req[p].data.playerName = req[q].data.playerName
          /\ req[p].data.score # req[q].data.score
          /\ req[p].existingPlayer # <<>> /\ req[q].existingPlayer # <<>>
          /\ \A e \in {req[p].existingPlayer[1], req[q].existingPlayer[1]} :
                /\ e.score < req[p].data.score
                /\ e.score < req[q].data.score )
        => StoredScores(req[p].data.playerName)
             = {Max({req[p].data.score, req[q].data.score})}

\* C2: in every reachable state the store holds at most one entry per
\* playerName.
C2_OneEntryPerPlayerName ==
    \A i, j \in DOMAIN store :
        store[i].playerName = store[j].playerName => i = j

\* C3: no step replaces the stored score of an entry by a smaller one.
C3_StoredScoreNeverDecreases ==
    [][\A i \in DOMAIN store : store'[i].score >= store[i].score]_vars

\* C4: after any sequence of submissions made one after another, the stored
\* score of each player is the maximum score submitted for that player (and a
\* player nobody submitted has no entry).
C4_SequentialFinalScoreIsMax ==
    Quiescent =>
        \A n \in Names :
            StoredScores(n) = IF hist.submitted[n] = {} THEN {}
                              ELSE {Max(hist.submitted[n])}

\* C4 witness: three different scores for alice, the highest one neither first
\* nor last, all calls completed.
C4_Witness ==
    /\ Quiescent
    /\ hist.submitted["alice"] = {0, 1, 2}
    /\ hist.prevData # <<>> /\ hist.prevData[1].score = 2
    /\ hist.curData[1].score = 0
    /\ StoredScores("alice") = {2}

\* C5: two first-time submissions for one player that both found no entry and
\* both attempted the insert have completed: the second insert failed on the
\* uniqueness of playerName and was retried as an update, so the player has
\* one entry and both callers got an entry (status 200), neither an error.
C5_InsertRaceRetriedAsUpdate ==
    \A p, q \in Procs :
        ( /\ p # q
          /\ Done(p) /\ Done(q)
          /\ req[p].data.playerName = req[q].data.playerName
          /\ req[p].branch = "insert" /\ req[q].branch = "insert" )
        => /\ Cardinality(RowsByName(store, req[p].data.playerName)) = 1
           /\ req[p].status = 200 /\ req[p].result # <<>>
           /\ req[q].status = 200 /\ req[q].result # <<>>

\* C6: the score equals the number of positions of the click sequence at
\* which a krishna click immediately follows a hare click.
C6_ScoreCountsHareKrishnaPairs == gameState.score = PairCount(clicks)

\* C6 witness: a sequence with a repeated hare, a repeated krishna and two
\* completed pairs.
C6_Witness ==
    /\ clicks = <<"hare", "hare", "krishna", "krishna", "hare", "krishna">>
    /\ gameState.score = 2

\* C7: malaCount equals floor(score / 108) in every state of the sequencer.
C7_MalaCountIsScoreDiv108 == gameState.malaCount = gameState.score \div MalaSize

\* C7 witness: the second mala has just been completed.
C7_Witness == gameState.score = 2 * MalaSize /\ gameState.malaCount = 2

\* The entry of a player who has exactly one.
TheEntry(table, name) == CHOOSE r \in Matches(table, name) : TRUE

\* The data of the sequential call in progress or last completed.
Cur == hist.curData[1]

\* C8: a second submission of the same (playerName, score, country), made
\* after the first has completed, leaves the store as the first left it
\* (score, country and updatedAt of the entry included) and returns that entry.
C8_ResubmissionIsIdempotent ==
    ( /\ Done(SeqProc)
      /\ hist.prevData # <<>>
      /\ hist.prevData = hist.curData )
    => /\ store = hist.pre
       /\ req[SeqProc].status = 200
       /\ req[SeqProc].result = <<EntryOf(TheEntry(store, Cur.playerName))>>

\* C8 witness: the resubmission completed, and it started strictly after the
\* entry was last written, so that a write would have shown in updatedAt.
C8_Witness ==
    /\ Done(SeqProc)
    /\ hist.prevData # <<>>
    /\ hist.prevData = hist.curData
    /\ Matches(store, Cur.playerName) # {}
    /\ TheEntry(store, Cur.playerName).updatedAt < hist.preClock

\* A submission is dominated when the player has an entry and the submitted
\* score does not exceed the stored score.
Dominated(p) ==
    /\ Matches(store, req[p].data.playerName) # {}
    /\ \A r \in Matches(store, req[p].data.playerName) : req[p].data.score <= r.score

\* C9: the lookup step of a dominated submission, in any interleaving, writes
\* nothing (the store, with every entry's country and updatedAt, is unchanged)
\* and completes the call with status 200 and the existing entry.
C9_DominatedSubmissionWritesNothing ==
    [][\A p \in Procs :
          (req[p].pc = "lookup" /\ req'[p] # req[p] /\ Dominated(p))
          => /\ store' = store
             /\ req'[p].pc = "done"
             /\ req'[p].status = 200
             /\ \E r \in Matches(store, req[p].data.playerName) :
                   req'[p].result = <<EntryOf(r)>>]_vars

\* C9 witness: a dominated submission that carried another country than the
\* stored one has been answered, later than the entry's last write.
C9_Witness ==
    \E p \in Procs :
        /\ Done(p)
        /\ req[p].branch = "dominated"
        /\ req[p].status = 200
        /\ req[p].data.country \in Countries
        /\ req[p].data.country # req[p].result[1].country
        /\ req[p].result[1].updatedAt < clock
        /\ Matches(store, req[p].data.playerName) # {}
        /\ TheEntry(store, req[p].data.playerName).country = req[p].result[1].country

\* C10: a sequential submission whose score is strictly greater than the
\* stored score of an existing player has completed: the entry keeps its id,
\* playerName and createdAt, its score is the submitted score, its country is
\* the submitted country if one was supplied and the stored country otherwise,
\* its updatedAt is a clock reading taken during the call (not before the
\* previous updatedAt), and the call returned the updated entry.
C10_HigherScoreUpdatesEntry ==
    ( /\ Done(SeqProc)
      /\ hist.curData # <<>>
      /\ Matches(hist.pre, Cur.playerName) # {}
      /\ TheEntry(hist.pre, Cur.playerName).score < Cur.score )
    => LET old == TheEntry(hist.pre, Cur.playerName)
           new == RowById(store, old.id)
       IN /\ Len(store) = Len(hist.pre)
          /\ new.playerName = old.playerName
          /\ new.createdAt = old.createdAt
          /\ new.score = Cur.score
          /\ new.country = IF Cur.country \in Countries THEN Cur.country
                           ELSE old.country
          /\ hist.preClock <= new.updatedAt /\ new.updatedAt <= clock
          /\ old.updatedAt <= new.updatedAt
          /\ req[SeqProc].status = 200
          /\ req[SeqProc].result = <<EntryOf(new)>>

\* C10 witness: an update that supplied no country kept the stored country
\* "US" and moved updatedAt past createdAt.
C10_Witness ==
    /\ Done(SeqProc)
    /\ req[SeqProc].branch = "update"
    /\ Cur.country = Undefined
    /\ Matches(store, Cur.playerName) # {}
    /\ TheEntry(store, Cur.playerName).country = "US"
    /\ TheEntry(store, Cur.playerName).score = Cur.score
    /\ TheEntry(store, Cur.playerName).updatedAt
         > TheEntry(store, Cur.playerName).createdAt

\* C11: a sequential submission for a player who had no entry has completed:
\* the store is the previous store with exactly one entry added, which carries
\* the submitted name and score and the submitted country, or 'XX' when none
\* was supplied; the call returned that entry.
C11_FirstSubmissionCreatesEntry ==
    ( /\ Done(SeqProc)
      /\ hist.curData # <<>>
      /\ Matches(hist.pre, Cur.playerName) = {} )
    => /\ Len(store) = Len(hist.pre) + 1
       /\ SubSeq(store, 1, Len(hist.pre)) = hist.pre
       /\ Cardinality(RowsByName(store, Cur.playerName)) = 1
       /\ LET new == store[Len(store)]
          IN /\ new.playerName = Cur.playerName
             /\ new.score = Cur.score
             /\ new.country = IF Cur.country \in Countries THEN Cur.country
                              ELSE "XX"
             /\ req[SeqProc].status = 200
             /\ req[SeqProc].result = <<EntryOf(new)>>

\* C11 witness: a second player was created without a country and got 'XX',
\* next to the entry of the first.
C11_Witness ==
    /\ Done(SeqProc)
    /\ req[SeqProc].branch = "insert"
    /\ Cur.country = Undefined
    /\ Len(store) = 2
    /\ store[2].playerName = Cur.playerName
    /\ store[2].country = "XX"
    /\ req[SeqProc].result # <<>>

\* C15: every click leaves the score unchanged or raises it by exactly 1, and
\* a click that differs from expecting changes neither score nor malaCount.
C15_ScoreOnlyGrowsByOne ==
    [][ /\ gameState'.score \in {gameState.score, gameState.score + 1}
        /\ (clicks' # clicks /\ clicks'[Len(clicks')] # gameState.expecting)
             => /\ gameState'.score = gameState.score
                /\ gameState'.malaCount = gameState.malaCount ]_vars

\* C15 witness: a wrong click (a second krishna) after a completed pair left
\* the score at 1.
C15_Witness ==
    /\ clicks = <<"hare", "krishna", "krishna">>
    /\ gameState.score = 1

\* C16: after every click of symbol s, correct or wrong, lastClicked is s and
\* expecting is the symbol opposite to s.
C16_ExpectingIsOppositeOfLastClick ==
    clicks # <<>> =>
        /\ gameState.lastClicked = clicks[Len(clicks)]
        /\ gameState.expecting = Opposite(clicks[Len(clicks)])

\* C16 witness: after the wrong click krishna, krishna the opposite symbol
\* hare is expected, and the hare, krishna that followed scored.
C16_Witness ==
    /\ clicks = <<"krishna", "krishna", "hare", "krishna">>
    /\ gameState.score = 1
    /\ gameState.expecting = "hare"

\* C17: a click sequence of hare clicks only leaves the score at 0, and a
\* first click that is krishna does not increment the score.
C17_HareOnlyAndKrishnaFirstScoreNothing ==
    /\ (\A i \in DOMAIN clicks : clicks[i] = "hare") => gameState.score = 0
    /\ clicks = <<"krishna">> => gameState.score = 0

\* C17 witness: four hare clicks in a row.
C17_Witness ==
    /\ clicks = <<"hare", "hare", "hare", "hare">>
    /\ gameState.score = 0

\* C18: after hare, hare the sequencer expects krishna with lastClicked hare
\* and score 0; after hare, hare, krishna the score is 1; and a krishna click
\* right after a hare click always raises the score by exactly 1.
C18_KrishnaAfterHaresCompletesOnePair ==
    /\ [](clicks = <<"hare", "hare">>
            => /\ gameState.expecting = "krishna"
               /\ gameState.lastClicked = "hare"
               /\ gameState.score = 0)
    /\ [](clicks = <<"hare", "hare", "krishna">> => gameState.score = 1)
    /\ [][ ( /\ clicks # <<>>
             /\ clicks[Len(clicks)] = "hare"
             /\ clicks' = Append(clicks, "krishna") )
           => gameState'.score = gameState.score + 1 ]_vars

\* C18 witness: a run of three hare clicks followed by krishna made one pair.
C18_Witness ==
    /\ clicks = <<"hare", "hare", "hare", "krishna">>
    /\ gameState.score = 1

AllDigits(chars) == chars # <<>> /\ \A i \in DOMAIN chars : IsDigit(chars[i])

WellFormedLimit(param) == param = Absent \/ AllDigits(param[1])

\* The limit a well-formed request asks for.
AskedLimit(q) ==
    IF q.limitParam # Absent
    THEN DecimalValue(q.limitParam[1])
    ELSE IF q.route = "global" THEN 100 ELSE 50

ListRoutes == {"global", "country"}

\* C13: for every limit the global and country routes pass on (a non-negative
\* integer in the query string, 0 included, or the default when omitted) the
\* list answered has at most limit entries and its scores never increase.
C13_AtMostLimitSortedByScore ==
    (qry.pc = "done" /\ qry.route \in ListRoutes /\ WellFormedLimit(qry.limitParam))
    => /\ qry.status = 200
       /\ Len(qry.body) <= AskedLimit(qry)
       /\ \A i \in 1..Len(qry.body) - 1 : qry.body[i].score >= qry.body[i + 1].score

\* The entries of a country in the store a query read.
SeenOfCountry(q) ==
    {EntryOf(q.seen[i]) : i \in RowsByCountry(q.seen, q.country)}

BodySet(q) == {q.body[i] : i \in DOMAIN q.body}

\* C14: getCountryLeaderboard(country, limit) returns only entries of that
\* country, min(limit, number of such entries) of them, and none of them
\* scores below an entry of the country that was left out.
C14_CountryTopLimit ==
    (qry.pc = "done" /\ qry.route = "country" /\ qry.limit # NaN /\ qry.limit[1] >= 0)
    => LET all == SeenOfCountry(qry)
           n == Cardinality(all)
       IN /\ qry.status = 200
          /\ BodySet(qry) \subseteq all
          /\ Cardinality(BodySet(qry)) = Len(qry.body)
          /\ Len(qry.body) = (IF qry.limit[1] < n THEN qry.limit[1] ELSE n)
          /\ \A e \in BodySet(qry), o \in all \ BodySet(qry) : e.score >= o.score

\* An invalid score-submission body, in the claim's words.
InvalidBody(body) ==
    \/ Len(body.playerName) = 0
    \/ Len(body.playerName) > 50
    \/ body.score.num < 0
    \/ body.score.num % body.score.den # 0
    \/ body.country # Undefined /\ Len(body.country) # 2

\* C19: a score submission with an invalid body (playerName empty or longer
\* than 50 characters, score negative or not an integer, country present but
\* not exactly 2 characters) is answered with status 400 in the step that
\* receives it: the request never waits on a storage read or write, and the
\* store is left as it was.
C19_InvalidBodyAnswered400 ==
    /\ [](\A p \in Procs :
            (raw[p] # <<>> /\ InvalidBody(raw[p][1]))
            => /\ req[p].pc = "done"
               /\ req[p].status = 400
               /\ req[p].branch = "none"
               /\ req[p].existingPlayer = <<>>
               /\ req[p].result = <<>>)
    /\ [][\A p \in Procs :
            (raw'[p] # raw[p] /\ InvalidBody(raw'[p][1]))
            => /\ store' = store
               /\ req'[p].pc = "done"]_vars

C19_Witness ==
    /\ raw[SeqProc] = <<[playerName |-> "alice", score |-> Whole(-1), country |-> "US"]>>
    /\ req[SeqProc].pc = "done"
    /\ req[SeqProc].status = 400
    /\ store # <<>>

\* A list query with malformed input, in the claim's words.
MalformedQuery(q) ==
    /\ q.route \in ListRoutes
    /\ \/ ~WellFormedLimit(q.limitParam)
       \/ q.route = "country" /\ Len(q.country) # 2

\* C20: a leaderboard query with malformed input (a limit that is not a
\* non-negative integer, or a country path parameter that is not a
\* 2-character code) is rejected as a validation error before any storage
\* access: it never waits on a storage call and is never answered from the
\* store.
C20_MalformedQueryRejected ==
    MalformedQuery(qry)
    => /\ qry.pc # "call"
       /\ qry.pc = "done" => (qry.status = 400 /\ qry.body = <<>>)

\* C30: in every reachable state of the sequencer, expecting = krishna
\* implies lastClicked = hare, and expecting = hare implies lastClicked is
\* none or krishna; so the score goes up by one exactly in the steps where a
\* krishna click matches expecting (the inner test on lastClicked never
\* fails there).
C30_ExpectingDeterminesLastClicked ==
    /\ [](/\ gameState.expecting = "krishna" => gameState.lastClicked = "hare"
          /\ gameState.expecting = "hare"
                => gameState.lastClicked \in {NoButton, "krishna"})
    /\ [][clicks' # clicks
            => LET buttonType == clicks'[Len(clicks')]
               IN (gameState'.score = gameState.score + 1)
                    <=> (buttonType = "krishna" /\ buttonType = gameState.expecting)]_vars

C30_Witness ==
    /\ clicks = <<"krishna", "hare", "hare", "krishna">>
    /\ gameState.score = 1
    /\ gameState.expecting = "hare"
    /\ gameState.lastClicked = "krishna"

PlayerNames(table) == {table[i].playerName : i \in DOMAIN table}

\* C23: once an entry exists for a playerName, one exists in every later
\* state: no step of a submission or of a query removes an entry, so the
\* set of playerNames in the store only grows.
C23_PlayerNamesOnlyGrow ==
    [][/\ PlayerNames(store) \subseteq PlayerNames(store')
       /\ Len(store') >= Len(store)]_vars

C23_Witness ==
    /\ Len(store) = 2
    /\ PlayerNames(store) = {"alice", "carol"}
    /\ req[SeqProc].pc = "done"
    /\ req[SeqProc].branch = "update"
    /\ qry.pc = "done"
    /\ qry.route = "global"
    /\ qry.seen = store

\* C26: every successful updatePlayerScore call returns an entry for the
\* submitted playerName whose score is at least the submitted score, in
\* every interleaving with other submissions for the same name.
C26_ReturnedScoreAtLeastSubmitted ==
    \A p \in Procs :
        (Done(p) /\ req[p].status = 200)
        => /\ req[p].result[1].playerName = req[p].data.playerName
           /\ req[p].result[1].score >= req[p].data.score

\* The request whose update step this is.
Updating(p) == req[p].pc = "update" /\ req'[p] # req[p]

\* C27: for an existing entry, id, playerName and createdAt never change;
\* country changes only in a step that also strictly raises the score and
\* whose submission supplies a country; a submission that raises the score
\* without a country leaves country as it was.
C27_OnlyScoreRaisingStepChangesCountry ==
    [][\A i \in DOMAIN store :
         /\ i \in DOMAIN store'
         /\ store'[i].id = store[i].id
         /\ store'[i].playerName = store[i].playerName
         /\ store'[i].createdAt = store[i].createdAt
         /\ store'[i].country # store[i].country
               => /\ store'[i].score > store[i].score
                  /\ \E p \in Procs : /\ Updating(p)
                                      /\ req[p].data.country # Undefined
                                      /\ store'[i].country = req[p].data.country
         /\ \A p \in Procs :
               (Updating(p) /\ req[p].data.country = Undefined)
               => store'[i].country = store[i].country]_vars

\* The rows of a table that belong to other players than name, in order.
RowsOfOthers(table, name) == SelectSeq(table, LAMBDA r : r.playerName # name)

\* The one body submitted for the second player.
BobData == CHOOSE d \in Submissions : d.playerName = "bob"

\* C22: a step of a submission for playerName X never creates, changes or
\* removes an entry of another playerName, in any interleaving; and the
\* entry of the second player is at all times what its own submissions
\* alone produce (the submitted score and country, written once), whatever
\* the submissions for the first player do in between.
C22_OtherPlayersEntriesUntouched ==
    /\ [][\A p \in Procs :
            req'[p] # req[p]
            => LET name == (IF req[p].pc \in {"idle", "done"} THEN req'[p] ELSE req[p])
                              .data.playerName
               IN RowsOfOthers(store', name) = RowsOfOthers(store, name)]_vars
    /\ [](\A i \in RowsByName(store, "bob") :
            /\ store[i].score = BobData.score
            /\ store[i].country = BobData.country
            /\ store[i].updatedAt = store[i].createdAt)

C22_Witness ==
    \E p, q \in Procs :
        /\ Done(p) /\ req[p].data.playerName = "bob" /\ req[p].branch = "insert"
        /\ Done(q) /\ req[q].data.playerName = "alice" /\ req[q].branch = "update"
        /\ req[q].data.country = "CA"
        /\ Len(store) = 2
        /\ store[1].playerName = "alice" /\ store[1].country = "CA"
        /\ store[2].playerName = "bob"
        /\ store[2].createdAt < store[1].updatedAt

\* C21: when a storage operation issued by updatePlayerScore fails, the
\* request issues no further storage operation (no retry): the failing step
\* leaves the store alone and completes the request with status 500 and the
\* generic error body; and the server keeps serving: the slot accepts the
\* next submission.
C21_StorageFailureAnswered500 ==
    /\ [][\A p \in Procs :
            (req[p].pc \in Awaiting /\ req'[p].branch = "failed")
            => /\ store' = store
               /\ req'[p].pc = "done"
               /\ req'[p].status = 500
               /\ req'[p].result = <<>>]_vars
    /\ [](\A p \in Procs :
            req[p].branch = "failed"
            => /\ req[p].pc = "done"
               /\ req[p].status = 500
               /\ nsub < MaxSubs
                    => ENABLED (\E data \in Submissions : ConcurrentSubmit(p, data)))

C21_Witness ==
    \E p, q \in Procs :
        /\ req[p].branch = "failed" /\ req[p].status = 500
        /\ req[p].data.playerName = "alice"
        /\ req[p].existingPlayer # <<>>
        /\ Done(q) /\ req[q].status = 200 /\ req[q].branch = "update"
        /\ req[q].data.playerName = "alice"
        /\ req[q].data.score > req[p].data.score
        /\ req[q].existingPlayer # <<>>
        /\ req[q].existingPlayer[1].score >= req[p].data.score

\* C24: the submission client invalidates the cached global, country and
\* total views after each submission that succeeds and none of them when
\* the submission fails; the invalidation never comes before the server's
\* response (status 200 for the body that was sent).
C24_InvalidateOnSuccessOnly ==
    /\ [](/\ client.mut = "success"
             => /\ client.invalidated = {GlobalKey, CountryKey, TotalKey}
                /\ req[SeqProc].pc = "done"
                /\ req[SeqProc].status = 200
                /\ raw[SeqProc] = client.sent
          /\ client.mut # "success" => client.invalidated = {})
    /\ [][client'.invalidated \ client.invalidated # {}
            => /\ client.mut = "pending"
               /\ req[SeqProc].pc = "done"
               /\ req[SeqProc].status = 200]_vars

C24_Witness ==
    /\ client.mut = "success"
    /\ client.invalidated = {GlobalKey, CountryKey, TotalKey}
    /\ client.sent # <<>>
    /\ Len(store) = 1
    /\ store[1].score = client.sent[1].score.num
    /\ nsub = 2

\* C25: whatever the geolocation lookup returned, the country the client
\* sends with a submission has 2 characters, and the submission is not
\* answered 400.
C25_DetectedCountryPassesValidation ==
    client.sent # <<>>
    => /\ Len(client.sent[1].country) = 2
       /\ (raw[SeqProc] = client.sent /\ Done(SeqProc)) => req[SeqProc].status # 400

\* The users created through a token.
UsersVia(token) == {i \in DOMAIN auth.users : auth.users[i].viaToken = token}

\* The step in which the token lookup of request a returns.
TokenLookupReturns(a) ==
    auth.areq[a].pc = "getToken" /\ auth'.areq[a] # auth.areq[a]

\* C29: an email token creates at most one user, also when two set-password
\* requests with it run concurrently; once a set-password with it has
\* succeeded the token is gone, and every later set-password or verify-email
\* with it is answered 400 and creates no user; a request that finds the
\* token expired deletes it, is answered 400 and creates no user.
C29_TokenCreatesAtMostOneUser ==
    /\ [](/\ \A token \in Tokens : Cardinality(UsersVia(token)) <= 1
          /\ \A token \in auth.succeeded :
                /\ EmailTokensOf(token) = {}
                /\ Cardinality(UsersVia(token)) = 1)
    /\ [][\A a \in Procs :
            /\ (TokenLookupReturns(a) /\ auth.areq[a].token \in auth.succeeded)
                  => /\ auth'.areq[a].pc = "done"
                     /\ auth'.areq[a].status = 400
                     /\ auth'.users = auth.users
            /\ (/\ TokenLookupReturns(a)
                /\ \E r \in EmailTokensOf(auth.areq[a].token) : r.expiresAt < clock)
                  => /\ auth'.areq[a].pc = "deleteExpired"
                     /\ auth'.users = auth.users
            /\ (auth.areq[a].pc = "deleteExpired" /\ auth'.areq[a] # auth.areq[a])
                  => /\ auth'.areq[a].pc = "done"
                     /\ auth'.areq[a].status = 400
                     /\ auth'.users = auth.users
                     /\ \A r \in auth'.tokens : r.token # auth.areq[a].token]_vars

\* C29 witness: two set-password requests with the same token were served
\* together: one created the user, the other was refused by the insert.
C29_Witness ==
    \E a, b \in Procs :
        /\ auth.areq[a].route = "set-password" /\ auth.areq[b].route = "set-password"
        /\ auth.areq[a].token = auth.areq[b].token
        /\ auth.areq[a].pc = "done" /\ auth.areq[a].branch = "created"
        /\ auth.areq[b].pc = "done" /\ auth.areq[b].branch = "conflict"
        /\ Cardinality(UsersVia(auth.areq[a].token)) = 1
        /\ EmailTokensOf(auth.areq[a].token) = {}

\* The (playerName, score, country) of an entry, and of the entries of a table.
Triple(e) == [playerName |-> e.playerName, score |-> e.score, country |-> e.country]

Triples(table) == {Triple(table[i]) : i \in DOMAIN table}

\* C28: the two storage implementations, started from empty stores and given
\* the same sequence of non-overlapping submissions, agree after every call:
\* the stores hold the same set of (playerName, score, country) entries and
\* the calls return entries with the same playerName, score and country.
C28_BackendsAgreeSequentially ==
    (twin.phase = "replay" /\ Done(SeqProc) /\ nsub >= 1)
    => LET first == twin.log[nsub]
       IN /\ first.data = req[SeqProc].data
          /\ Triples(store) = Triples(first.store)
          /\ req[SeqProc].status = first.status
          /\ Len(req[SeqProc].result) = Len(first.result)
          /\ \A i \in DOMAIN first.result :
                Triple(req[SeqProc].result[i]) = Triple(first.result[i])

C28_Witness ==
    /\ twin.phase = "replay"
    /\ backend = "mongo"
    /\ Done(SeqProc)
    /\ nsub = 3
    /\ Len(twin.log) = 3
    /\ req[SeqProc].branch = "update"
    /\ req[SeqProc].data.country = Undefined
    /\ Triples(store) = {[playerName |-> "alice", score |-> 2, country |-> "CA"],
                         [playerName |-> "bob", score |-> 1, country |-> "US"]}

=============================================================================
